---- MODULE Spec2Model ----
(***************************************************************************)
(* The Group aggregate of PennyPal-Backend: membership, the expense ledger *)
(* (billSplit), the derived debts (simplifyDebt) and the handlers of       *)
(* controllers/groups.js that drive the model methods of models/group.js.  *)
(*                                                                         *)
(* Amounts.  The code computes with JavaScript Numbers (IEEE doubles).     *)
(* Here an amount is an integer count of 1/Unit of a currency unit, with   *)
(* Unit a power of two: every such value and every sum, difference and     *)
(* minimum of such values is an exact double, so the arithmetic below is   *)
(* the arithmetic the code performs on these inputs.  The literal 0.01 is  *)
(* no multiple of 1/Unit, so x > 0.01 is 100 * x > Unit exactly.           *)
(* A stored Debt amount is Math.round(x * 100) / 100: a whole number of    *)
(* cents, kept here as that number of cents.                               *)
(***************************************************************************)
EXTENDS Integers, Sequences, FiniteSets, TLC

VARIABLES group,       \* the stored Group document
          userGroups,  \* User.groups: per user, how many references to the group
          now,         \* the clock read by new Date() / Date.now()
          last,        \* the last handler run and the error it returned
          req,         \* the in-flight requests (concurrent handlers)
          deleted      \* Group.findByIdAndDelete has removed the document

vars == <<group, userGroups, now, last, req, deleted>>

---------------------------------------------------------------------------
(* Bounds and input sets *)

MaxTime == 1       \* the clock runs over 0..MaxTime
MaxExpenses == 2   \* ledger length in Spec
MaxLedger == 2     \* ledger length in SpecLedger

Unit == 256

Users == {"A", "B", "C"}                  \* the users of Spec and SpecMembers
AllUsers == {"A", "B", "C", "D", "E"}     \* the users of SpecLedger
Owner == "A"
Currencies == {"IDR", "USD"}

Min(a, b) == IF a <= b THEN a ELSE b
Abs(x) == IF x < 0 THEN -x ELSE x

\* x > 0.01, x < 0.01 for an amount x in 1/Unit
GtCent(x) == 100 * x > Unit
LtCent(x) == 100 * x < Unit

\* Math.round(x * 100) for x >= 0 in 1/Unit: the number of cents
RoundCents(x) == (200 * x + Unit) \div (2 * Unit)

RECURSIVE SumAmounts(_)
SumAmounts(s) == IF s = <<>> THEN 0 ELSE s[1].amount + SumAmounts(Tail(s))

Range(s) == {s[i] : i \in 1..Len(s)}

---------------------------------------------------------------------------
(* Array.prototype.sort with a descending comparator on field f (stable) *)

InsertDesc(sorted, x, f) ==
    LET n == Cardinality({i \in 1..Len(sorted) : sorted[i][f] >= x[f]})
    IN  SubSeq(sorted, 1, n) \o <<x>> \o SubSeq(sorted, n + 1, Len(sorted))

RECURSIVE SortDescBy(_, _)
SortDescBy(s, f) ==
    IF s = <<>> THEN <<>>
    ELSE InsertDesc(SortDescBy(SubSeq(s, 1, Len(s) - 1), f), s[Len(s)], f)

---------------------------------------------------------------------------
(* Members *)

\* this.members.find(m => m.userId.toString() === userId.toString())
FindMember(ms, userId) ==
    LET idx == {i \in 1..Len(ms) : ms[i].userId = userId}
    IN  IF idx = {} THEN 0 ELSE CHOOSE i \in idx : \A j \in idx : i <= j

\* this.members.filter(m => m.isActive).map(m => m.userId.toString())
RECURSIVE ActiveIds(_)
ActiveIds(ms) ==
    IF ms = <<>> THEN <<>>
    ELSE (IF ms[1].isActive THEN <<ms[1].userId>> ELSE <<>>) \o ActiveIds(Tail(ms))

\* virtual memberCount
memberCount(g) == Len(ActiveIds(g.members))

---------------------------------------------------------------------------
(* calculateDebts: balances *)

\* A balance table debtsByCurrency[currency]: its keys in insertion order
\* (Object.keys), the numeric values, and the keys whose value is NaN
\* (undefined + amount, for a key that was never initialised).
EmptyBalances == [keys |-> <<>>, val |-> <<>>, nan |-> {}]

HasKey(b, id) == id \in Range(b.keys)

\* if (!balances[memberId]) balances[memberId] = 0   (undefined, 0 and NaN are falsy)
InitBalance(b, id) ==
    IF ~HasKey(b, id)
    THEN [keys |-> Append(b.keys, id), val |-> (id :> 0) @@ b.val, nan |-> b.nan]
    ELSE IF id \in b.nan
         THEN [b EXCEPT !.val = (id :> 0) @@ b.val, !.nan = b.nan \ {id}]
         ELSE b

RECURSIVE InitBalances(_, _)
InitBalances(b, ids) ==
    IF ids = <<>> THEN b ELSE InitBalances(InitBalance(b, ids[1]), Tail(ids))

\* balances[id] += d
AddBalance(b, id, d) ==
    IF ~HasKey(b, id)
    THEN [keys |-> Append(b.keys, id), val |-> (id :> 0) @@ b.val,
          nan |-> b.nan \cup {id}]
    ELSE IF id \in b.nan THEN b
         ELSE [b EXCEPT !.val = (id :> (b.val[id] + d)) @@ b.val]

RECURSIVE SubtractSplits(_, _)
SubtractSplits(b, splits) ==
    IF splits = <<>> THEN b
    ELSE SubtractSplits(AddBalance(b, splits[1].userId, -splits[1].amount),
                        Tail(splits))

\* debtsByCurrency after the forEach over billSplit: the currencies in order of
\* first appearance and the balance table of each
NoBalances == [order |-> <<>>, bal |-> [c \in Currencies |-> EmptyBalances]]

\* mutant: one balance table for all currencies, under the first one seen
ExpenseBalances_Shared(d, ms, expense) ==
    LET c  == IF d.order = <<>> THEN expense.currency ELSE d.order[1]
        b1 == InitBalances(d.bal[c], ActiveIds(ms))
        b2 == AddBalance(b1, expense.paidBy, expense.amount)
        b3 == SubtractSplits(b2, expense.splitBetween)
    IN  [order |-> IF c \in Range(d.order) THEN d.order ELSE Append(d.order, c),
         bal   |-> [d.bal EXCEPT ![c] = b3]]

\* mutant: the table of the currency is emptied at every expense
ExpenseBalances_Reset(d, ms, expense) ==
    LET c  == expense.currency
        b1 == InitBalances(EmptyBalances, ActiveIds(ms))
        b2 == AddBalance(b1, expense.paidBy, expense.amount)
        b3 == SubtractSplits(b2, expense.splitBetween)
    IN  [order |-> IF c \in Range(d.order) THEN d.order ELSE Append(d.order, c),
         bal   |-> [d.bal EXCEPT ![c] = b3]]

ExpenseBalances(d, ms, expense) ==
    LET c  == expense.currency
        b0 == d.bal[c]
        b1 == InitBalances(b0, ActiveIds(ms))
        b2 == AddBalance(b1, expense.paidBy, expense.amount)
        b3 == SubtractSplits(b2, expense.splitBetween)
    IN  [order |-> IF c \in Range(d.order) THEN d.order ELSE Append(d.order, c),
         bal   |-> [d.bal EXCEPT ![c] = b3]]

RECURSIVE LedgerBalances(_, _, _)
LedgerBalances(d, ms, ledger) ==
    IF ledger = <<>> THEN d
    ELSE LedgerBalances(ExpenseBalances(d, ms, ledger[1]), ms, Tail(ledger))

---------------------------------------------------------------------------
(* calculateDebts: creditors, debtors and the greedy sweep *)

RECURSIVE Creditors(_, _)
Creditors(b, keys) ==
    IF keys = <<>> THEN <<>>
    ELSE (IF keys[1] \notin b.nan /\ GtCent(b.val[keys[1]])
          THEN <<[userId |-> keys[1], amount |-> b.val[keys[1]]]>>
          ELSE <<>>) \o Creditors(b, Tail(keys))

\* mutant: every balance of magnitude above 0.01 counts as a debtor
RECURSIVE Debtors_Magnitude(_, _)
Debtors_Magnitude(b, keys) ==
    IF keys = <<>> THEN <<>>
    ELSE (IF keys[1] \notin b.nan /\ GtCent(Abs(b.val[keys[1]]))
          THEN <<[userId |-> keys[1], amount |-> Abs(b.val[keys[1]])]>>
          ELSE <<>>) \o Debtors_Magnitude(b, Tail(keys))

RECURSIVE Debtors(_, _)
Debtors(b, keys) ==
    IF keys = <<>> THEN <<>>
    ELSE (IF keys[1] \notin b.nan /\ GtCent(-b.val[keys[1]])
          THEN <<[userId |-> keys[1], amount |-> Abs(b.val[keys[1]])]>>
          ELSE <<>>) \o Debtors(b, Tail(keys))

\* mutant: both pointers advance after every transfer
RECURSIVE SweepAdvancing(_, _, _, _, _)
SweepAdvancing(cs, ds, i, j, currency) ==
    IF ~(i <= Len(cs) /\ j <= Len(ds)) THEN <<>>
    ELSE LET settleAmount == Min(cs[i].amount, ds[j].amount)
         IN  (IF GtCent(settleAmount)
              THEN <<[from |-> ds[j].userId, to |-> cs[i].userId,
                      amount |-> RoundCents(settleAmount), currency |-> currency]>>
              ELSE <<>>) \o SweepAdvancing(cs, ds, i + 1, j + 1, currency)

Sweep_AdvanceBoth(cs, ds, i, j, ca, da, currency) ==
    SweepAdvancing(cs, ds, i, j, currency)

\* the while loop: ca, da are creditors[i].amount, debtors[j].amount as the
\* loop has decremented them
RECURSIVE Sweep(_, _, _, _, _, _, _)
Sweep(cs, ds, i, j, ca, da, currency) ==
    IF ~(i <= Len(cs) /\ j <= Len(ds)) THEN <<>>
    ELSE LET settleAmount == Min(ca, da)
             emitted == IF GtCent(settleAmount)
                        THEN <<[from |-> ds[j].userId, to |-> cs[i].userId,
                                amount |-> RoundCents(settleAmount),
                                currency |-> currency]>>
                        ELSE <<>>
             ca2 == ca - settleAmount
             da2 == da - settleAmount
             i2  == IF LtCent(ca2) THEN i + 1 ELSE i
             j2  == IF LtCent(da2) THEN j + 1 ELSE j
             caN == IF i2 = i THEN ca2
                    ELSE IF i2 <= Len(cs) THEN cs[i2].amount ELSE 0
             daN == IF j2 = j THEN da2
                    ELSE IF j2 <= Len(ds) THEN ds[j2].amount ELSE 0
         IN  emitted \o Sweep(cs, ds, i2, j2, caN, daN, currency)

\* mutant: the debtor's remaining amount is not reduced by the transfer
RECURSIVE SweepSteps_NoDecrement(_, _, _, _, _, _, _)
SweepSteps_NoDecrement(cs, ds, i, j, ca, da, n) ==
    IF n = 0 \/ ~(i <= Len(cs) /\ j <= Len(ds)) THEN <<>>
    ELSE LET settleAmount == Min(ca, da)
             ca2 == ca - settleAmount
             da2 == da
             i2  == IF LtCent(ca2) THEN i + 1 ELSE i
             j2  == IF LtCent(da2) THEN j + 1 ELSE j
             caN == IF i2 = i THEN ca2
                    ELSE IF i2 <= Len(cs) THEN cs[i2].amount ELSE 0
             daN == IF j2 = j THEN da2
                    ELSE IF j2 <= Len(ds) THEN ds[j2].amount ELSE 0
         IN  <<[i |-> i, j |-> j, i2 |-> i2, j2 |-> j2]>>
                 \o SweepSteps_NoDecrement(cs, ds, i2, j2, caN, daN, n - 1)

\* the first n iterations of the while loop: the pointers (i, j) each
\* iteration starts with and the pointers (i2, j2) it leaves
RECURSIVE SweepSteps(_, _, _, _, _, _, _)
SweepSteps(cs, ds, i, j, ca, da, n) ==
    IF n = 0 \/ ~(i <= Len(cs) /\ j <= Len(ds)) THEN <<>>
    ELSE LET settleAmount == Min(ca, da)
             ca2 == ca - settleAmount
             da2 == da - settleAmount
             i2  == IF LtCent(ca2) THEN i + 1 ELSE i
             j2  == IF LtCent(da2) THEN j + 1 ELSE j
             caN == IF i2 = i THEN ca2
                    ELSE IF i2 <= Len(cs) THEN cs[i2].amount ELSE 0
             daN == IF j2 = j THEN da2
                    ELSE IF j2 <= Len(ds) THEN ds[j2].amount ELSE 0
         IN  <<[i |-> i, j |-> j, i2 |-> i2, j2 |-> j2]>>
                 \o SweepSteps(cs, ds, i2, j2, caN, daN, n - 1)

\* mutant: creditors and debtors are swept in member order, unsorted
CurrencyDebts_Unsorted(b, currency) ==
    LET creditors == Creditors(b, b.keys)
        debtors   == Debtors(b, b.keys)
    IN  IF creditors = <<>> \/ debtors = <<>> THEN <<>>
        ELSE Sweep(creditors, debtors, 1, 1,
                   creditors[1].amount, debtors[1].amount, currency)

\* the transfers emitted for one currency
CurrencyDebts(b, currency) ==
    LET creditors == SortDescBy(Creditors(b, b.keys), "amount")
        debtors   == SortDescBy(Debtors(b, b.keys), "amount")
    IN  IF creditors = <<>> \/ debtors = <<>> THEN <<>>
        ELSE Sweep(creditors, debtors, 1, 1,
                   creditors[1].amount, debtors[1].amount, currency)

RECURSIVE AllCurrencyDebts(_, _)
AllCurrencyDebts(d, order) ==
    IF order = <<>> THEN <<>>
    ELSE CurrencyDebts(d.bal[order[1]], order[1]) \o AllCurrencyDebts(d, Tail(order))

\* mutant: the debts point from the creditor to the debtor
NewDebts_Reversed(transfers) ==
    [k \in 1..Len(transfers) |->
        [id |-> k, from |-> transfers[k].to, to |-> transfers[k].from,
         amount |-> transfers[k].amount, currency |-> transfers[k].currency,
         status |-> "pending", settledAt |-> -1, settledBy |-> "none"]]

\* this.simplifyDebt.push({...}): a new subdocument, status pending, with an
\* _id that is unique in the array (here: its position)
NewDebts(transfers) ==
    [k \in 1..Len(transfers) |->
        [id |-> k, from |-> transfers[k].from, to |-> transfers[k].to,
         amount |-> transfers[k].amount, currency |-> transfers[k].currency,
         status |-> "pending", settledAt |-> -1, settledBy |-> "none"]]

\* mutant: one debt per split share, no netting
RECURSIVE SplitDebts(_, _, _)
SplitDebts(splits, paidBy, currency) ==
    IF splits = <<>> THEN <<>>
    ELSE (IF splits[1].userId # paidBy /\ GtCent(splits[1].amount)
          THEN <<[from |-> splits[1].userId, to |-> paidBy,
                  amount |-> RoundCents(splits[1].amount), currency |-> currency]>>
          ELSE <<>>) \o SplitDebts(Tail(splits), paidBy, currency)

RECURSIVE PairwiseDebts(_)
PairwiseDebts(ledger) ==
    IF ledger = <<>> THEN <<>>
    ELSE SplitDebts(ledger[1].splitBetween, ledger[1].paidBy, ledger[1].currency)
         \o PairwiseDebts(Tail(ledger))

calculateDebts_Pairwise(g) ==
    [g EXCEPT !.simplifyDebt = NewDebts(PairwiseDebts(g.billSplit))]

\* mutant: an obligation whose debt was settled is not emitted again
calculateDebts_SkipSettled(g) ==
    LET d == LedgerBalances(NoBalances, g.members, g.billSplit)
        old == g.simplifyDebt
        open == SelectSeq(AllCurrencyDebts(d, d.order),
                    LAMBDA x : ~\E k \in 1..Len(old) :
                        /\ old[k].status = "settled"
                        /\ old[k].from = x.from /\ old[k].to = x.to
                        /\ old[k].currency = x.currency)
    IN  [g EXCEPT !.simplifyDebt = NewDebts(open)]

\* mutant: the existing Debt list is not cleared
calculateDebts_Keep(g) ==
    LET d == LedgerBalances(NoBalances, g.members, g.billSplit)
        new == NewDebts(AllCurrencyDebts(d, d.order))
    IN  [g EXCEPT !.simplifyDebt =
            @ \o [k \in 1..Len(new) |->
                    [new[k] EXCEPT !.id = Len(g.simplifyDebt) + k]]]

\* mutant: a recomputed debt takes over the settlement of the debt it replaces
calculateDebts_Carry(g) ==
    LET d == LedgerBalances(NoBalances, g.members, g.billSplit)
        new == NewDebts(AllCurrencyDebts(d, d.order))
        old == g.simplifyDebt
    IN  [g EXCEPT !.simplifyDebt =
            [k \in 1..Len(new) |->
                IF k <= Len(old) /\ old[k].from = new[k].from /\ old[k].to = new[k].to
                THEN [new[k] EXCEPT !.status = old[k].status,
                                    !.settledAt = old[k].settledAt,
                                    !.settledBy = old[k].settledBy]
                ELSE new[k]]]

calculateDebts(g) ==
    LET d == LedgerBalances(NoBalances, g.members, g.billSplit)
    IN  [g EXCEPT !.simplifyDebt = NewDebts(AllCurrencyDebts(d, d.order))]

---------------------------------------------------------------------------
(* The document and its save *)

\* createGroup: new Group(groupData), the creator an active admin member
NewGroup(userId, maxMembers, t) ==
    [members |-> <<[userId |-> userId, role |-> "admin",
                    joinedAt |-> t, isActive |-> TRUE]>>,
     billSplit |-> <<>>,
     simplifyDebt |-> <<>>,
     defaultCurrency |-> "IDR",
     allowMultipleCurrencies |-> TRUE,
     autoSimplifyDebts |-> TRUE,
     maxMembers |-> maxMembers,
     inviteCode |-> "none",
     inviteCodeExpiresAt |-> -1]

\* the schema validators save() runs: min: 0 on amounts, min/max on maxMembers
ValidDocument(g) ==
    /\ \A i \in 1..Len(g.billSplit) :
          /\ g.billSplit[i].amount >= 0
          /\ \A k \in 1..Len(g.billSplit[i].splitBetween) :
                g.billSplit[i].splitBetween[k].amount >= 0
    /\ \A i \in 1..Len(g.simplifyDebt) : g.simplifyDebt[i].amount >= 0
    /\ g.maxMembers >= 2 /\ g.maxMembers <= 100

\* pre('save'): billSplit.sort((a, b) => new Date(b.date) - new Date(a.date))
PreSave(g) == [g EXCEPT !.billSplit = SortDescBy(@, "date")]

\* this.save(): the document that reaches the store, or a ValidationError
\* (stored: the document the store holds when the call returns)
Save(stored, g) ==
    IF ValidDocument(g) THEN [err |-> "none", g |-> PreSave(g)]
    ELSE [err |-> "ValidationError", g |-> stored]

Fail(g, e) == [err |-> e, g |-> g]

---------------------------------------------------------------------------
(* Model methods *)

\* mutant: a returning user gets a second membership record
addMember_Append(g, userId, t) ==
    LET i == FindMember(g.members, userId)
    IN  IF i # 0 /\ g.members[i].isActive
        THEN Fail(g, "AlreadyMember")
        ELSE IF memberCount(g) >= g.maxMembers
             THEN Fail(g, "CapacityExceeded")
             ELSE Save(g, [g EXCEPT !.members =
                             Append(@, [userId |-> userId, role |-> "member",
                                        joinedAt |-> t, isActive |-> TRUE])])

addMember(g, userId, t) ==
    LET i == FindMember(g.members, userId)
    IN  IF i # 0
        THEN IF ~g.members[i].isActive
             THEN Save(g, [g EXCEPT !.members[i].isActive = TRUE,
                                    !.members[i].joinedAt = t])
             ELSE Fail(g, "AlreadyMember")
        ELSE IF memberCount(g) >= g.maxMembers
             THEN Fail(g, "CapacityExceeded")
             ELSE Save(g, [g EXCEPT !.members =
                             Append(@, [userId |-> userId, role |-> "member",
                                        joinedAt |-> t, isActive |-> TRUE])])

\* mutant: a member is removed whatever its debts
removeMember_Unguarded(g, userId) ==
    LET i == FindMember(g.members, userId)
    IN  IF i = 0 THEN Fail(g, "NotAMember")
        ELSE Save(g, [g EXCEPT !.members[i].isActive = FALSE])

\* mutant: only the debtor side of a debt blocks the removal
HasPendingDebt_FromOnly(g, userId) ==
    \E i \in 1..Len(g.simplifyDebt) :
        /\ g.simplifyDebt[i].from = userId
        /\ g.simplifyDebt[i].status = "pending"

\* this.simplifyDebt.some(debt => (from or to is userId) && status === 'pending')
HasPendingDebt(g, userId) ==
    \E i \in 1..Len(g.simplifyDebt) :
        /\ g.simplifyDebt[i].from = userId \/ g.simplifyDebt[i].to = userId
        /\ g.simplifyDebt[i].status = "pending"

removeMember(g, userId) ==
    LET i == FindMember(g.members, userId)
    IN  IF i = 0 THEN Fail(g, "NotAMember")
        ELSE IF HasPendingDebt(g, userId) THEN Fail(g, "OutstandingDebt")
        ELSE Save(g, [g EXCEPT !.members[i].isActive = FALSE])

\* mutant: any currency is accepted
ExpenseError_AnyCurrency(g, amount, currency, splitBetween) ==
    IF \E k \in 1..Len(splitBetween) :
          splitBetween[k].userId \notin Range(ActiveIds(g.members))
    THEN "InvalidSplitParticipant"
    ELSE IF GtCent(Abs(SumAmounts(splitBetween) - amount))
    THEN "SplitMismatch"
    ELSE "none"

\* mutant: a participant needs a membership record, active or not
ExpenseError_AnyMember(g, amount, currency, splitBetween) ==
    IF ~g.allowMultipleCurrencies /\ currency # g.defaultCurrency
    THEN "CurrencyNotAllowed"
    ELSE IF \E k \in 1..Len(splitBetween) :
               FindMember(g.members, splitBetween[k].userId) = 0
    THEN "InvalidSplitParticipant"
    ELSE IF GtCent(Abs(SumAmounts(splitBetween) - amount))
    THEN "SplitMismatch"
    ELSE "none"

\* mutant: the split must equal the amount exactly
ExpenseError_Exact(g, amount, currency, splitBetween) ==
    IF ~g.allowMultipleCurrencies /\ currency # g.defaultCurrency
    THEN "CurrencyNotAllowed"
    ELSE IF \E k \in 1..Len(splitBetween) :
               splitBetween[k].userId \notin Range(ActiveIds(g.members))
    THEN "InvalidSplitParticipant"
    ELSE IF SumAmounts(splitBetween) # amount
    THEN "SplitMismatch"
    ELSE "none"

\* the three validations of addExpense, in order
ExpenseError(g, amount, currency, splitBetween) ==
    IF ~g.allowMultipleCurrencies /\ currency # g.defaultCurrency
    THEN "CurrencyNotAllowed"
    ELSE IF \E k \in 1..Len(splitBetween) :
               splitBetween[k].userId \notin Range(ActiveIds(g.members))
    THEN "InvalidSplitParticipant"
    ELSE IF GtCent(Abs(SumAmounts(splitBetween) - amount))
    THEN "SplitMismatch"
    ELSE "none"

\* mutant: the simplifier runs whatever autoSimplifyDebts says
addExpense_AlwaysSimplify(g, amount, currency, paidBy, splitBetween, t) ==
    LET e == ExpenseError(g, amount, currency, splitBetween)
        expense == [amount |-> amount, currency |-> currency, paidBy |-> paidBy,
                    splitBetween |-> splitBetween, date |-> t]
        pushed == [g EXCEPT !.billSplit = Append(@, expense)]
    IN  IF e # "none" THEN Fail(g, e)
        ELSE Save(g, calculateDebts(pushed))

\* mutant: the expense is stored before the request is validated
addExpense_StoreFirst(g, amount, currency, paidBy, splitBetween, t) ==
    LET e == ExpenseError(g, amount, currency, splitBetween)
        expense == [amount |-> amount, currency |-> currency, paidBy |-> paidBy,
                    splitBetween |-> splitBetween, date |-> t]
        pushed == [g EXCEPT !.billSplit = Append(@, expense)]
    IN  IF e # "none" THEN [err |-> e, g |-> Save(g, pushed).g]
        ELSE Save(g, IF g.autoSimplifyDebts THEN calculateDebts(pushed) ELSE pushed)

addExpense(g, amount, currency, paidBy, splitBetween, t) ==
    LET e == ExpenseError(g, amount, currency, splitBetween)
        expense == [amount |-> amount, currency |-> currency, paidBy |-> paidBy,
                    splitBetween |-> splitBetween, date |-> t]
        pushed == [g EXCEPT !.billSplit = Append(@, expense)]
    IN  IF e # "none" THEN Fail(g, e)
        ELSE Save(g, IF g.autoSimplifyDebts THEN calculateDebts(pushed) ELSE pushed)

\* this.simplifyDebt.id(debtId)
FindDebt(g, debtId) ==
    LET idx == {i \in 1..Len(g.simplifyDebt) : g.simplifyDebt[i].id = debtId}
    IN  IF idx = {} THEN 0 ELSE CHOOSE i \in idx : TRUE

\* mutant: the simplifier runs again after the settlement
settleDebt_Resimplify(g, debtId, settledBy, t) ==
    LET i == FindDebt(g, debtId)
    IN  IF i = 0 THEN Fail(g, "DebtNotFound")
        ELSE IF g.simplifyDebt[i].status # "pending" THEN Fail(g, "AlreadySettled")
        ELSE Save(g, calculateDebts([g EXCEPT !.simplifyDebt[i].status = "settled",
                                              !.simplifyDebt[i].settledAt = t,
                                              !.simplifyDebt[i].settledBy = settledBy]))

settleDebt(g, debtId, settledBy, t) ==
    LET i == FindDebt(g, debtId)
    IN  IF i = 0 THEN Fail(g, "DebtNotFound")
        ELSE IF g.simplifyDebt[i].status # "pending" THEN Fail(g, "AlreadySettled")
        ELSE Save(g, [g EXCEPT !.simplifyDebt[i].status = "settled",
                               !.simplifyDebt[i].settledAt = t,
                               !.simplifyDebt[i].settledBy = settledBy])

---------------------------------------------------------------------------
(* Request inputs *)

Share(userId, amount) == [userId |-> userId, amount |-> amount]

Request(amount, currency, paidBy, splitBetween) ==
    [amount |-> amount, currency |-> currency, paidBy |-> paidBy,
     splitBetween |-> splitBetween]

ThreeWay(a, b, c) == <<Share("A", a), Share("B", b), Share("C", c)>>

\* req.body of addExpense: the scenarios of the specification, splits at and
\* beyond the tolerance, a second currency, shares below one cent, a payer who
\* owes the whole amount
ExpenseInputs ==
    { Request(300 * Unit, "IDR", "A", ThreeWay(100 * Unit, 100 * Unit, 100 * Unit)),
      Request(60 * Unit, "IDR", "B", ThreeWay(20 * Unit, 20 * Unit, 20 * Unit)),
      Request(300 * Unit, "IDR", "A", ThreeWay(100 * Unit, 100 * Unit, 100 * Unit - 2)),
      Request(300 * Unit, "IDR", "A", ThreeWay(100 * Unit, 100 * Unit, 100 * Unit - 3)),
      Request(300 * Unit, "IDR", "A", ThreeWay(100 * Unit, 100 * Unit, 95 * Unit)),
      Request(60 * Unit, "USD", "C", <<Share("A", 30 * Unit), Share("B", 30 * Unit)>>),
      Request(4, "IDR", "A", <<Share("B", 2), Share("C", 2)>>),
      Request(60 * Unit, "IDR", "B", <<Share("B", 60 * Unit)>>) }

\* SpecLedger adds two expenses among five members
LedgerInputs ==
    ExpenseInputs \cup
    { Request(4 * Unit, "IDR", "A", <<Share("D", 2 * Unit), Share("E", 2 * Unit)>>),
      Request(3 * Unit, "IDR", "B", <<Share("C", 3 * Unit)>>),
      Request(2 * Unit, "IDR", "A", <<Share("D", 2 * Unit)>>),
      Request(300 * Unit, "IDR", "A", ThreeWay(100 * Unit + 2, 100 * Unit, 100 * Unit)),
      Request(0, "IDR", "B", <<Share("B", 0)>>),
      Request(-10 * Unit, "IDR", "B", <<Share("B", -10 * Unit)>>) }

MaxMembersInputs == {2, 3}
SettlerInputs == {"B"}
FriendInputs == {<<"B">>, <<"C">>, <<"B", "C">>, <<"C", "C">>}
InviteCodes == {"K1", "K2"}
InviteInputs == {"K1", "k1", "K2"}
ExpirationInputs == {1}

\* String.prototype.toUpperCase on the invite-code inputs
ToUpperCase(code) == IF code = "k1" THEN "K1" ELSE code

---------------------------------------------------------------------------
(* Handlers, one request at a time *)

\* what the last handler was and returned; discarded: it replaced a Debt list
\* that held a Debt whose status was not pending
Result(op, err) == [op |-> op, result |-> err, discarded |-> FALSE]

Recomputed(op, r, g) ==
    [op |-> op, result |-> r.err,
     discarded |-> /\ r.err = "none"
                   /\ \E k \in 1..Len(g.simplifyDebt) :
                         g.simplifyDebt[k].status # "pending"]

\* User.findByIdAndUpdate(userId, {$push: {groups: id}})
PushGroup(ug, userId) == [ug EXCEPT ![userId] = @ + 1]
\* User.findByIdAndUpdate(userId, {$pull: {groups: id}})
PullGroup(ug, userId) == [ug EXCEPT ![userId] = 0]

\* createGroup by Owner, with room for every user
Init ==
    /\ group = NewGroup(Owner, Cardinality(Users), 0)
    /\ userGroups = [u \in AllUsers |-> IF u = Owner THEN 1 ELSE 0]
    /\ now = 0
    /\ last = Result("createGroup", "none")
    /\ req = <<>>
    /\ deleted = FALSE

Tick ==
    /\ now < MaxTime
    /\ now' = now + 1
    /\ UNCHANGED <<group, userGroups, last, req, deleted>>

JoinGroup(userId) ==
    LET r == addMember(group, userId, now)
    IN  /\ group' = r.g
        /\ userGroups' = IF r.err = "none" THEN PushGroup(userGroups, userId)
                         ELSE userGroups
        /\ last' = Result("joinGroup", r.err)
        /\ UNCHANGED <<now, req, deleted>>

\* generateInviteCode: Math.random() code, expiry expirationHours from now
\* (the clock counts hours)
generateInviteCode(g, code, expirationHours, t) ==
    Save(g, [g EXCEPT !.inviteCode = code,
                      !.inviteCodeExpiresAt = t + expirationHours])

GenerateInviteCode(code, expirationHours) ==
    LET r == generateInviteCode(group, code, expirationHours, now)
    IN  /\ group' = r.g
        /\ last' = Result("generateInviteCode", r.err)
        /\ UNCHANGED <<userGroups, now, req, deleted>>

\* mutant: a code is still accepted at its expiry time
findByInviteCode_AtExpiry(g, inviteCode, t) ==
    /\ g.inviteCode = ToUpperCase(inviteCode)
    /\ g.inviteCodeExpiresAt >= t

\* findByInviteCode: the code matches and inviteCodeExpiresAt > new Date()
findByInviteCode(g, inviteCode, t) ==
    /\ g.inviteCode = ToUpperCase(inviteCode)
    /\ g.inviteCodeExpiresAt > t

\* joinByInviteCode: Group.findByInviteCode, then group.addMember
joinByInviteCode(g, userId, inviteCode, t) ==
    IF findByInviteCode(g, inviteCode, t)
    THEN addMember(g, userId, t)
    ELSE Fail(g, "InvalidInvite")

JoinByInviteCode(userId, inviteCode) ==
    LET r == joinByInviteCode(group, userId, inviteCode, now)
    IN  /\ group' = r.g
        /\ userGroups' = IF r.err = "none" THEN PushGroup(userGroups, userId)
                         ELSE userGroups
        /\ last' = Result("joinByInviteCode", r.err)
        /\ UNCHANGED <<now, req, deleted>>

\* the for loop of addFriendsToGroup: each friend in its own try/catch
RECURSIVE AddFriends(_, _, _, _)
AddFriends(g, ug, friends, t) ==
    IF friends = <<>> THEN [g |-> g, ug |-> ug]
    ELSE LET r == addMember(g, friends[1], t)
         IN  AddFriends(r.g,
                        IF r.err = "none" THEN PushGroup(ug, friends[1]) ELSE ug,
                        Tail(friends), t)

AddFriendsToGroup(friends) ==
    LET r == AddFriends(group, userGroups, friends, now)
    IN  /\ group' = r.g
        /\ userGroups' = r.ug
        /\ last' = Result("addFriendsToGroup", "none")
        /\ UNCHANGED <<now, req, deleted>>

RemoveMember(userId) ==
    LET r == removeMember(group, userId)
    IN  /\ group' = r.g
        /\ userGroups' = IF r.err = "none" THEN PullGroup(userGroups, userId)
                         ELSE userGroups
        /\ last' = Result("removeMember", r.err)
        /\ UNCHANGED <<now, req, deleted>>

AddExpense(b) ==
    LET r == addExpense(group, b.amount, b.currency, b.paidBy, b.splitBetween, now)
    IN  /\ group' = r.g
        /\ last' = IF group.autoSimplifyDebts THEN Recomputed("addExpense", r, group)
                    ELSE Result("addExpense", r.err)
        /\ UNCHANGED <<userGroups, now, req, deleted>>

SettleDebt(debtId, settledBy) ==
    LET r == settleDebt(group, debtId, settledBy, now)
    IN  /\ group' = r.g
        /\ last' = Result("settleDebt", r.err)
        /\ UNCHANGED <<userGroups, now, req, deleted>>

\* calculateGroupDebts: group.calculateDebts(); await group.save()
CalculateGroupDebts ==
    LET r == Save(group, calculateDebts(group))
    IN  /\ group' = r.g
        /\ last' = Recomputed("calculateGroupDebts", r, group)
        /\ UNCHANGED <<userGroups, now, req, deleted>>

(* Spec: the whole lifecycle of one group, all requests served within one
   reading of the clock *)
Next ==
    \/ \E u \in Users : JoinGroup(u)
    \/ \E f \in FriendInputs : AddFriendsToGroup(f)
    \/ \E u \in Users : RemoveMember(u)
    \/ \E b \in ExpenseInputs : Len(group.billSplit) < MaxExpenses /\ AddExpense(b)
    \/ \E d \in 1..(Len(group.simplifyDebt) + 1), u \in SettlerInputs : SettleDebt(d, u)
    \/ CalculateGroupDebts

Spec == Init /\ [][Next]_vars

(* SpecMembers: membership and invitations as the clock advances, in groups
   with and without room for every user *)
NextMembers ==
    \/ Tick
    \/ \E u \in Users : JoinGroup(u)
    \/ \E f \in FriendInputs : AddFriendsToGroup(f)
    \/ \E u \in Users : RemoveMember(u)
    \/ \E c \in InviteCodes, h \in ExpirationInputs : GenerateInviteCode(c, h)
    \/ \E u \in Users, c \in InviteInputs : JoinByInviteCode(u, c)

InitMembers ==
    /\ \E m \in MaxMembersInputs : group = NewGroup(Owner, m, 0)
    /\ userGroups = [u \in AllUsers |-> IF u = Owner THEN 1 ELSE 0]
    /\ now = 0
    /\ last = Result("createGroup", "none")
    /\ req = <<>>
    /\ deleted = FALSE

SpecMembers == InitMembers /\ [][NextMembers]_vars

(* SpecLedger: five members, the ledger and its recomputation as the clock
   advances *)
InitLedger ==
    /\ LET r == AddFriends(NewGroup(Owner, 5, 0),
                           [u \in AllUsers |-> IF u = Owner THEN 1 ELSE 0],
                           <<"B", "C", "D", "E">>, 0)
       IN  group = r.g /\ userGroups = r.ug
    /\ now = 0
    /\ last = Result("addFriendsToGroup", "none")
    /\ req = <<>>
    /\ deleted = FALSE

NextLedger ==
    \/ Tick
    \/ \E b \in LedgerInputs : Len(group.billSplit) < MaxLedger /\ AddExpense(b)
    \/ CalculateGroupDebts

SpecLedger == InitLedger /\ [][NextLedger]_vars

---------------------------------------------------------------------------
(* SpecConc: two addExpense requests served concurrently.  A handler runs
   from one await to the next without interruption: findById reads the
   stored document into the request's own copy; group.addExpense validates,
   appends and recomputes on that copy and hands it to save(), whose write
   reaches the store later.  The handler takes no lock and checks no version;
   when the stored document has changed since it was read, the write either
   replaces the paths the request modified (billSplit, simplifyDebt) or is
   refused by the driver's version check on modified arrays. *)

Requests == {1, 2}

ConcInputs ==
    { Request(300 * Unit, "IDR", "A", ThreeWay(100 * Unit, 100 * Unit, 100 * Unit)),
      Request(60 * Unit, "IDR", "B", ThreeWay(20 * Unit, 20 * Unit, 20 * Unit)),
      Request(60 * Unit, "USD", "C", <<Share("A", 30 * Unit), Share("B", 30 * Unit)>>),
      Request(300 * Unit, "IDR", "A", ThreeWay(100 * Unit, 100 * Unit, 95 * Unit)) }

InitConc ==
    /\ LET r == AddFriends(NewGroup(Owner, Cardinality(Users), 0),
                           [u \in AllUsers |-> IF u = Owner THEN 1 ELSE 0],
                           <<"B", "C">>, 0)
       IN  group = r.g /\ userGroups = r.ug
    /\ now = 0
    /\ last = Result("addFriendsToGroup", "none")
    /\ req = [i \in Requests |-> [pc |-> "start"]]
    /\ deleted = FALSE

\* const group = await Group.findById(groupId)
ReqFind(i, b) ==
    /\ req[i].pc = "start"
    /\ req' = [req EXCEPT ![i] = [pc |-> "found", body |-> b, doc |-> group]]
    /\ UNCHANGED <<group, userGroups, now, last, deleted>>

\* group.addExpense(...) on the request's copy
ReqResult(i) ==
    addExpense(req[i].doc, req[i].body.amount, req[i].body.currency,
               req[i].body.paidBy, req[i].body.splitBetween, now)

\* the paths addExpense modified, written over the stored document
Persist(stored, doc) ==
    [stored EXCEPT !.billSplit = doc.billSplit, !.simplifyDebt = doc.simplifyDebt]

\* await group.addExpense(...): the save reaches the store
ReqSave(i) ==
    LET r == ReqResult(i)
    IN  /\ req[i].pc = "found"
        /\ group' = IF r.err = "none" THEN Persist(group, r.g) ELSE group
        /\ req' = [req EXCEPT ![i] = [pc |-> "done", body |-> req[i].body,
                                      result |-> r.err]]
        /\ last' = Result("addExpense", r.err)
        /\ UNCHANGED <<userGroups, now, deleted>>

\* the save is refused: the stored document changed after it was read
ReqSaveConflict(i) ==
    /\ req[i].pc = "found"
    /\ req[i].doc # group
    /\ ReqResult(i).err = "none"
    /\ req' = [req EXCEPT ![i] = [pc |-> "done", body |-> req[i].body,
                                  result |-> "VersionError"]]
    /\ last' = Result("addExpense", "VersionError")
    /\ UNCHANGED <<group, userGroups, now, deleted>>

NextConc ==
    \/ Tick
    \/ \E i \in Requests, b \in ConcInputs : ReqFind(i, b)
    \/ \E i \in Requests : ReqSave(i)
    \/ \E i \in Requests : ReqSaveConflict(i)

SpecConc == InitConc /\ [][NextConc]_vars

---------------------------------------------------------------------------
(* SpecJoin: two joinGroup requests served concurrently.  findByGroupCode
   reads the stored document into the request's own copy; group.addMember
   checks and changes that copy and hands it to save(), whose write reaches
   the store later.  The handler takes no lock.  The write carries what the
   request changed: a pushed member is appended to the stored array, a
   reactivated record is set in place; the in-place set may be refused by the
   driver's version check when the stored document changed after the read. *)

\* groups as createGroup leaves them, and groups B has joined and left
InitJoin ==
    /\ \E m \in MaxMembersInputs :
          \/ group = NewGroup(Owner, m, 0)
          \/ group = removeMember(addMember(NewGroup(Owner, m, 0), "B", 0).g, "B").g
    /\ userGroups = [u \in AllUsers |-> IF u = Owner THEN 1 ELSE 0]
    /\ now = 0
    /\ last = Result("createGroup", "none")
    /\ req = [i \in Requests |-> [pc |-> "start"]]
    /\ deleted = FALSE

\* const group = await Group.findByGroupCode(groupCode)
JoinFind(i, userId) ==
    /\ req[i].pc = "start"
    /\ req' = [req EXCEPT ![i] = [pc |-> "found", userId |-> userId, doc |-> group]]
    /\ UNCHANGED <<group, userGroups, now, last, deleted>>

\* group.addMember(userId, user.username) on the request's copy
JoinResult(i) == addMember(req[i].doc, req[i].userId, now)

\* the request pushed a member (no record of the user in its copy)
Pushed(doc, saved) == Len(saved.members) > Len(doc.members)

\* the change addMember made to the copy, applied to the stored document
PersistMember(stored, doc, saved) ==
    IF Pushed(doc, saved)
    THEN [stored EXCEPT !.members = Append(@, saved.members[Len(saved.members)])]
    ELSE [stored EXCEPT !.members =
             [k \in 1..Len(@) |->
                 IF k <= Len(doc.members) /\ saved.members[k] # doc.members[k]
                 THEN saved.members[k] ELSE @[k]]]

\* await group.addMember(...) and the $push of the group to the user
JoinSave(i) ==
    LET r == JoinResult(i)
    IN  /\ req[i].pc = "found"
        /\ group' = IF r.err = "none" THEN PersistMember(group, req[i].doc, r.g)
                    ELSE group
        /\ userGroups' = IF r.err = "none" THEN PushGroup(userGroups, req[i].userId)
                         ELSE userGroups
        /\ req' = [req EXCEPT ![i] = [pc |-> "done", userId |-> req[i].userId,
                                      result |-> r.err]]
        /\ last' = Result("joinGroup", r.err)
        /\ UNCHANGED <<now, deleted>>

\* the in-place set is refused: the stored document changed after the read
JoinSaveConflict(i) ==
    /\ req[i].pc = "found"
    /\ req[i].doc # group
    /\ JoinResult(i).err = "none"
    /\ ~Pushed(req[i].doc, JoinResult(i).g)
    /\ req' = [req EXCEPT ![i] = [pc |-> "done", userId |-> req[i].userId,
                                  result |-> "VersionError"]]
    /\ last' = Result("joinGroup", "VersionError")
    /\ UNCHANGED <<group, userGroups, now, deleted>>

NextJoin ==
    \/ Tick
    \/ \E i \in Requests, u \in Users : JoinFind(i, u)
    \/ \E i \in Requests : JoinSave(i)
    \/ \E i \in Requests : JoinSaveConflict(i)

SpecJoin == InitJoin /\ [][NextJoin]_vars

---------------------------------------------------------------------------
(* SpecDelete: the life of a group up to and after its deletion *)

\* group.members.map(member => User.findByIdAndUpdate(member.userId, {$pull: ...}))
RECURSIVE PullMembers(_, _)
PullMembers(ug, ms) ==
    IF ms = <<>> THEN ug ELSE PullMembers(PullGroup(ug, ms[1].userId), Tail(ms))

\* mutant: the group is deleted whatever its debts
deleteGroup_Unguarded(g, ug) ==
    [err |-> "none", ug |-> PullMembers(ug, g.members), deleted |-> TRUE]

\* deleteGroup, the group found
deleteGroup(g, ug) ==
    IF \E k \in 1..Len(g.simplifyDebt) : g.simplifyDebt[k].status = "pending"
    THEN [err |-> "OutstandingDebts", ug |-> ug, deleted |-> FALSE]
    ELSE [err |-> "none", ug |-> PullMembers(ug, g.members), deleted |-> TRUE]

DeleteGroup ==
    /\ ~deleted
    /\ LET r == deleteGroup(group, userGroups)
       IN  /\ userGroups' = r.ug
           /\ deleted' = r.deleted
           /\ last' = Result("deleteGroup", r.err)
    /\ UNCHANGED <<group, now, req>>

\* the handlers that look the group up by id
HandlerNames == {"addExpense", "settleDebt", "removeMember", "deleteGroup"}

\* if (!group) return res.status(404)
NotFound(op) ==
    /\ deleted
    /\ last' = Result(op, "GroupNotFound")
    /\ UNCHANGED <<group, userGroups, now, req, deleted>>

DeleteInputs ==
    { Request(300 * Unit, "IDR", "A", ThreeWay(100 * Unit, 100 * Unit, 100 * Unit)),
      Request(60 * Unit, "USD", "C", <<Share("A", 30 * Unit), Share("B", 30 * Unit)>>) }

NextDelete ==
    \/ ~deleted /\ \E u \in Users : JoinGroup(u)
    \/ ~deleted /\ \E u \in Users : RemoveMember(u)
    \/ ~deleted /\ \E b \in DeleteInputs :
                      Len(group.billSplit) < MaxExpenses /\ AddExpense(b)
    \/ ~deleted /\ \E d \in 1..(Len(group.simplifyDebt) + 1), u \in SettlerInputs :
                      SettleDebt(d, u)
    \/ DeleteGroup
    \/ \E op \in HandlerNames : NotFound(op)

SpecDelete == Init /\ [][NextDelete]_vars

---------------------------------------------------------------------------
(* SpecSettings: the ledger of a group of three under each value of the
   settings allowMultipleCurrencies, autoSimplifyDebts and defaultCurrency
   the schema admits *)

InitSettings ==
    /\ \E multi \in BOOLEAN, auto \in BOOLEAN, dc \in Currencies :
          group = [AddFriends(NewGroup(Owner, Cardinality(Users), 0),
                              [u \in AllUsers |-> IF u = Owner THEN 1 ELSE 0],
                              <<"B", "C">>, 0).g
                     EXCEPT !.allowMultipleCurrencies = multi,
                            !.autoSimplifyDebts = auto,
                            !.defaultCurrency = dc]
    /\ userGroups = [u \in AllUsers |-> IF u \in Users THEN 1 ELSE 0]
    /\ now = 0
    /\ last = Result("addFriendsToGroup", "none")
    /\ req = <<>>
    /\ deleted = FALSE

NextSettings ==
    \/ \E b \in ExpenseInputs : Len(group.billSplit) < MaxExpenses /\ AddExpense(b)
    \/ \E d \in 1..(Len(group.simplifyDebt) + 1), u \in SettlerInputs : SettleDebt(d, u)
    \/ CalculateGroupDebts

SpecSettings == InitSettings /\ [][NextSettings]_vars

---------------------------------------------------------------------------
(* Vocabulary of the claims, defined on the stored document alone *)

Ledger == group.billSplit
Debts == group.simplifyDebt

IsMember(u) == \E k \in 1..Len(group.members) : group.members[k].userId = u
IsActive(u) ==
    \E k \in 1..Len(group.members) :
        group.members[k].userId = u /\ group.members[k].isActive
IsInactive(u) == IsMember(u) /\ ~IsActive(u)

\* x <= 0.01 for an amount x >= 0 in 1/Unit
WithinCent(x) == 100 * x <= Unit

SplitSum(e) == SumAmounts(e.splitBetween)

\* the request b is recorded in the ledger
SameExpense(e, b) ==
    /\ e.amount = b.amount /\ e.currency = b.currency
    /\ e.paidBy = b.paidBy /\ e.splitBetween = b.splitBetween

\* a Debt as the claims compare it
Transfer(d) == [from |-> d.from, to |-> d.to, amount |-> d.amount,
                currency |-> d.currency]

TransferSet(ds) == {Transfer(ds[k]) : k \in 1..Len(ds)}

\* how many times each transfer occurs in a Debt list
TransferCount(ds, t) == Cardinality({k \in 1..Len(ds) : Transfer(ds[k]) = t})

SameTransfers(ds1, ds2) ==
    /\ Len(ds1) = Len(ds2)
    /\ \A t \in TransferSet(ds1) \cup TransferSet(ds2) :
          TransferCount(ds1, t) = TransferCount(ds2, t)

PendingDebtNames(u) ==
    \E k \in 1..Len(Debts) :
        Debts[k].status = "pending" /\ u \in {Debts[k].from, Debts[k].to}

---------------------------------------------------------------------------
(* C1: two concurrent addExpense requests that a serial run accepts both end
   with both expenses in the ledger and with the persisted Debt list equal to
   the simplifier's output over the persisted ledger. *)

Accepted(b) == ExpenseError(group, b.amount, b.currency, b.splitBetween) = "none"

C1_SerialOutcome ==
    (\A i \in Requests : req[i].pc = "done" /\ Accepted(req[i].body))
    => /\ Len(Ledger) = Cardinality(Requests)
       /\ \A i \in Requests : \E k \in 1..Len(Ledger) : SameExpense(Ledger[k], req[i].body)
       /\ SameTransfers(Debts, calculateDebts(group).simplifyDebt)

---------------------------------------------------------------------------
(* C2: in every reachable state removeMember(u) on an active member u fails
   with OutstandingDebt, the group unchanged, exactly when a pending Debt
   names u as from or to (in any currency); otherwise it succeeds and marks
   u's membership inactive, changing nothing else. *)

C2_RemovalGuard ==
    \A u \in Users :
        IsActive(u) =>
            LET r == removeMember(group, u)
                i == CHOOSE k \in 1..Len(group.members) : group.members[k].userId = u
            IN  IF PendingDebtNames(u)
                THEN r.err = "OutstandingDebt" /\ r.g = group
                ELSE /\ r.err = "none"
                     /\ r.g = [group EXCEPT !.members[i].isActive = FALSE]

\* a member was removed after the pending debts naming it, one of them in the
\* second currency, were settled
C2_Witness ==
    /\ last = Result("removeMember", "none")
    /\ \E u \in Users :
          /\ IsInactive(u)
          /\ \E k \in 1..Len(Debts) :
                /\ Debts[k].status = "settled" /\ u \in {Debts[k].from, Debts[k].to}
                /\ Debts[k].currency = "USD"

---------------------------------------------------------------------------
(* C3: split conservation.  A request whose currency and participants are
   valid is accepted when |sum of split amounts - amount| <= 0.01 and
   rejected with SplitMismatch when the difference exceeds 0.01; every
   expense in the ledger has |sum of split amounts - amount| <= 0.01. *)

ParticipantsActive(b) ==
    \A k \in 1..Len(b.splitBetween) : IsActive(b.splitBetween[k].userId)

C3_SplitConservation ==
    /\ \A b \in ExpenseInputs :
          LET r == addExpense(group, b.amount, b.currency, b.paidBy, b.splitBetween, now)
              within == WithinCent(Abs(SumAmounts(b.splitBetween) - b.amount))
          IN  /\ ~within => r.err # "none" /\ r.g = group
              /\ ParticipantsActive(b) =>
                    IF within
                    THEN r.err = "none" /\ Len(r.g.billSplit) = Len(Ledger) + 1
                    ELSE r.err = "SplitMismatch"
    /\ \A k \in 1..Len(Ledger) : WithinCent(Abs(SplitSum(Ledger[k]) - Ledger[k].amount))

\* an expense whose split falls short of its amount, within the tolerance, was
\* accepted
C3_Witness ==
    /\ last.op = "addExpense" /\ last.result = "none"
    /\ \E k \in 1..Len(Ledger) :
          /\ SplitSum(Ledger[k]) # Ledger[k].amount
          /\ Ledger[k].date = now

---------------------------------------------------------------------------
(* Balances as the specification defines them: over the ledger, the payer is
   credited the amount and each participant is debited its share *)

RECURSIVE ShareOf(_, _)
ShareOf(splits, m) ==
    IF splits = <<>> THEN 0
    ELSE (IF splits[1].userId = m THEN splits[1].amount ELSE 0) + ShareOf(Tail(splits), m)

RECURSIVE NetBalance(_, _, _)
NetBalance(ledger, m, c) ==
    IF ledger = <<>> THEN 0
    ELSE (IF ledger[1].currency = c
          THEN (IF ledger[1].paidBy = m THEN ledger[1].amount ELSE 0)
               - ShareOf(ledger[1].splitBetween, m)
          ELSE 0) + NetBalance(Tail(ledger), m, c)

LedgerCurrencies == {Ledger[k].currency : k \in 1..Len(Ledger)}

NonZero(c) == {m \in AllUsers : NetBalance(Ledger, m, c) # 0}

DebtsIn(c) == {k \in 1..Len(Debts) : Debts[k].currency = c}

\* the stored Debt list is the output of the recomputation the last request ran
FreshDebts ==
    /\ last.result = "none"
    /\ \/ last.op = "calculateGroupDebts"
       \/ last.op = "addExpense" /\ group.autoSimplifyDebts

---------------------------------------------------------------------------
(* C4: at all times, for each currency in the ledger, the balances the
   simplifier computes sum to 0 over the members, within 0.01. *)

RECURSIVE SumBalances(_, _)
SumBalances(b, ids) ==
    IF ids = <<>> THEN 0
    ELSE (IF HasKey(b, ids[1]) THEN b.val[ids[1]] ELSE 0) + SumBalances(b, Tail(ids))

C4_BalanceSum ==
    LET d == LedgerBalances(NoBalances, group.members, Ledger)
    IN  \A c \in LedgerCurrencies :
            WithinCent(Abs(SumBalances(d.bal[c], ActiveIds(group.members))))

---------------------------------------------------------------------------
(* C5 as stated: right after a recomputation, for each currency, the number
   of debts is at most (the number of members with non-zero balance) - 1. *)

C5_Original ==
    FreshDebts =>
        \A c \in LedgerCurrencies :
            Cardinality(DebtsIn(c)) <= Cardinality(NonZero(c)) - 1

(* C5: right after a recomputation, for each currency, the number of debts is
   at most (the number of members with non-zero balance) - 1 when some member
   has a non-zero balance, and there is no debt when none has. *)

C5_DebtCount ==
    FreshDebts =>
        \A c \in LedgerCurrencies :
            IF NonZero(c) = {} THEN DebtsIn(c) = {}
            ELSE Cardinality(DebtsIn(c)) <= Cardinality(NonZero(c)) - 1

\* three or more members with a balance, and the bound is met
C5_Witness ==
    /\ FreshDebts
    /\ \E c \in LedgerCurrencies :
          /\ Cardinality(NonZero(c)) >= 3
          /\ Cardinality(DebtsIn(c)) = Cardinality(NonZero(c)) - 1

---------------------------------------------------------------------------
(* C6: right after calculateGroupDebts, a second calculateGroupDebts with no
   change in between leaves the same debts: the same (from, to, amount,
   currency) entries, whatever their order. *)

C6_Idempotent ==
    (last.op = "calculateGroupDebts" /\ last.result = "none") =>
        LET r == Save(group, calculateDebts(group))
        IN  r.err = "none" /\ SameTransfers(r.g.simplifyDebt, Debts)

\* a recomputation over two expenses that left two or more debts
C6_Witness ==
    /\ last.op = "calculateGroupDebts" /\ last.result = "none"
    /\ Len(Ledger) >= 2
    /\ Len(Debts) >= 2

---------------------------------------------------------------------------
(* C9: after a successful addExpense (auto-simplification on) or a successful
   recalculateDebts every debt is pending, with no settledBy and no
   settledAt, whatever the debts were before. *)

C9_AllPending ==
    FreshDebts =>
        \A k \in 1..Len(Debts) :
            /\ Debts[k].status = "pending"
            /\ Debts[k].settledBy = "none"
            /\ Debts[k].settledAt = -1

\* the recomputation replaced a list that held a settled debt
C9_Witness == FreshDebts /\ last.discarded /\ Len(Debts) >= 1

---------------------------------------------------------------------------
(* C10: a user has at most one membership record; addMember on a user whose
   record is inactive reactivates that record and sets its joinedAt to the
   current time, adding no record; addMember on an active member fails with
   AlreadyMember and leaves the group unchanged. *)

Records(u) == {k \in 1..Len(group.members) : group.members[k].userId = u}

C10_OneMembership ==
    \A u \in Users :
        /\ Cardinality(Records(u)) <= 1
        /\ LET r == addMember(group, u, now)
           IN  /\ IsActive(u) => r.err = "AlreadyMember" /\ r.g = group
               /\ IsInactive(u) =>
                     LET i == CHOOSE k \in Records(u) : TRUE
                     IN  /\ r.err = "none"
                         /\ r.g = [group EXCEPT !.members[i].isActive = TRUE,
                                                !.members[i].joinedAt = now]

\* a member whose record precedes another's but whose joinedAt is later: it
\* left and came back
C10_Witness ==
    /\ last.result = "none"
    /\ last.op \in {"joinGroup", "joinByInviteCode", "addFriendsToGroup"}
    /\ \E i, j \in 1..Len(group.members) :
          /\ i < j
          /\ group.members[i].isActive
          /\ group.members[i].joinedAt = now
          /\ group.members[i].joinedAt > group.members[j].joinedAt

---------------------------------------------------------------------------
(* Transfer lists that settle the balances of a currency: each transfer goes
   from a member with a negative balance to one with a positive balance and
   carries the magnitude of some member's balance; a list settles when every
   member's receipts minus payments are its balance, within 0.01 *)

CandidateTransfers(c) ==
    [from   : {m \in AllUsers : NetBalance(Ledger, m, c) < 0},
     to     : {m \in AllUsers : NetBalance(Ledger, m, c) > 0},
     amount : {Abs(NetBalance(Ledger, m, c)) : m \in NonZero(c)}]

RECURSIVE NetOfTransfers(_, _)
NetOfTransfers(ts, m) ==
    IF ts = <<>> THEN 0
    ELSE (IF ts[1].to = m THEN ts[1].amount ELSE 0)
         - (IF ts[1].from = m THEN ts[1].amount ELSE 0)
         + NetOfTransfers(Tail(ts), m)

Settles(ts, c) ==
    \A m \in AllUsers :
        WithinCent(Abs(NetOfTransfers(ts, m) - NetBalance(Ledger, m, c)))

\* some settling list has fewer transfers than the stored debts of c
FewerSettle(c) ==
    \E n \in 0..(Cardinality(DebtsIn(c)) - 1) :
        \E ts \in [1..n -> CandidateTransfers(c)] : Settles(ts, c)

---------------------------------------------------------------------------
(* C7 as stated: right after a recomputation, for each currency, no list of
   transfers that settles the members' balances has fewer transfers than the
   emitted Debt list. *)

---------------------------------------------------------------------------
(* C8 as stated: right after a recomputation over a ledger whose payers and
   participants are all active members, for each currency and member, the
   emitted debts owed to the member minus those owed by it equal the
   member's ledger balance, within 0.01. *)

AllActiveLedger ==
    \A k \in 1..Len(Ledger) :
        /\ IsActive(Ledger[k].paidBy)
        /\ \A i \in 1..Len(Ledger[k].splitBetween) :
              IsActive(Ledger[k].splitBetween[i].userId)

\* in cents
RECURSIVE NetOfDebts(_, _, _)
NetOfDebts(ds, m, c) ==
    IF ds = <<>> THEN 0
    ELSE (IF ds[1].currency = c
          THEN (IF ds[1].to = m THEN ds[1].amount ELSE 0)
               - (IF ds[1].from = m THEN ds[1].amount ELSE 0)
          ELSE 0) + NetOfDebts(Tail(ds), m, c)

\* |cents/100 - balance/Unit| <= 0.01
SamePosition(m, c) ==
    Abs(NetOfDebts(Debts, m, c) * Unit - 100 * NetBalance(Ledger, m, c)) <= Unit

C8_Original ==
    (FreshDebts /\ AllActiveLedger) =>
        \A c \in LedgerCurrencies : \A m \in AllUsers : SamePosition(m, c)

(* C8: right after a recomputation over a ledger whose payers and
   participants are all active members and whose amounts and split amounts
   are all whole currency units, for each currency and member, the emitted
   debts owed to the member minus those owed by it equal the member's ledger
   balance. *)

WholeUnits ==
    \A k \in 1..Len(Ledger) :
        /\ Ledger[k].amount % Unit = 0
        /\ \A i \in 1..Len(Ledger[k].splitBetween) :
              Ledger[k].splitBetween[i].amount % Unit = 0

C8_NetPosition ==
    (FreshDebts /\ AllActiveLedger /\ WholeUnits) =>
        \A c \in LedgerCurrencies : \A m \in AllUsers :
            NetOfDebts(Debts, m, c) * Unit = 100 * NetBalance(Ledger, m, c)

\* two expenses of whole units netted into three or more debts
C8_Witness ==
    /\ FreshDebts /\ AllActiveLedger /\ WholeUnits
    /\ Len(Ledger) >= 2
    /\ Len(Debts) >= 3

---------------------------------------------------------------------------
(* C11: settleDebt(debtId, actor) fails with DebtNotFound when no debt has
   that id and with AlreadySettled when the debt is settled or disputed, the
   group unchanged; otherwise it sets that debt's status to settled, its
   settledBy to the actor and its settledAt to the current time, and changes
   no other debt, no expense and no membership. *)

DebtsWithId(g, debtId) == {k \in 1..Len(g.simplifyDebt) : g.simplifyDebt[k].id = debtId}

C11_SettleDebt ==
    \A debtId \in 1..(Len(Debts) + 1), actor \in Users :
        LET r  == settleDebt(group, debtId, actor, now)
            ks == DebtsWithId(group, debtId)
        IN  IF ks = {} THEN r.err = "DebtNotFound" /\ r.g = group
            ELSE \A k \in ks :
                    /\ LET disputed == [group EXCEPT !.simplifyDebt[k].status = "disputed"]
                           rd == settleDebt(disputed, debtId, actor, now)
                       IN  rd.err = "AlreadySettled" /\ rd.g = disputed
                    /\ IF Debts[k].status # "pending"
                       THEN r.err = "AlreadySettled" /\ r.g = group
                       ELSE /\ r.err = "none"
                            /\ r.g = [group EXCEPT
                                        !.simplifyDebt[k].status = "settled",
                                        !.simplifyDebt[k].settledBy = actor,
                                        !.simplifyDebt[k].settledAt = now]

\* one of several debts was settled and the others are still pending
C11_Witness ==
    /\ last = Result("settleDebt", "none")
    /\ \E j, k \in 1..Len(Debts) :
          /\ Debts[j].status = "settled" /\ Debts[j].settledBy \in SettlerInputs
          /\ Debts[k].status = "pending"
    /\ Len(Ledger) >= 2

---------------------------------------------------------------------------
(* C12: deleteGroup fails, the group and every user's group list unchanged,
   whenever some debt of the group is pending; when no debt is pending it
   removes the group from the group list of the user of every membership
   record and deletes the group, after which no user's list names it. *)

C12_DeletionGuard ==
    /\ ~deleted =>
          LET r == deleteGroup(group, userGroups)
          IN  IF \E k \in 1..Len(Debts) : Debts[k].status = "pending"
              THEN r.err # "none" /\ ~r.deleted /\ r.ug = userGroups
              ELSE /\ r.err = "none" /\ r.deleted
                   /\ \A u \in AllUsers :
                         r.ug[u] = IF IsMember(u) THEN 0 ELSE userGroups[u]
    /\ deleted =>
          /\ \A k \in 1..Len(Debts) : Debts[k].status # "pending"
          /\ \A u \in AllUsers : userGroups[u] = 0

\* a group of several members was deleted once its debts were settled
C12_Witness ==
    /\ deleted
    /\ last = Result("deleteGroup", "none")
    /\ Len(Debts) >= 2
    /\ Cardinality({u \in Users : IsActive(u)}) >= 2

---------------------------------------------------------------------------
(* C13: addExpense with at least one split participant that is not an active
   member (never a member, or removed and not reactivated) is rejected, the
   ledger and the debts unchanged, with InvalidSplitParticipant when the
   currency is allowed; so an accepted expense has only active participants. *)

CurrencyAllowed(c) == group.allowMultipleCurrencies \/ c = group.defaultCurrency

C13_SplitParticipants ==
    \A b \in LedgerInputs :
        LET r == addExpense(group, b.amount, b.currency, b.paidBy, b.splitBetween, now)
        IN  /\ ~ParticipantsActive(b) =>
                  /\ r.err # "none"
                  /\ r.g = group
                  /\ CurrencyAllowed(b.currency) => r.err = "InvalidSplitParticipant"
            /\ r.err = "none" => ParticipantsActive(b)

\* with a removed member that every request names and an expense on the
\* ledger, an expense was rejected for its participants
C13_Witness ==
    /\ last.op = "addExpense" /\ last.result = "InvalidSplitParticipant"
    /\ IsInactive("B")
    /\ \A b \in ExpenseInputs :
          \E k \in 1..Len(b.splitBetween) : b.splitBetween[k].userId = "B"
    /\ Len(Ledger) >= 1

---------------------------------------------------------------------------
(* C14: in a group whose allowMultipleCurrencies is false, addExpense with a
   currency other than the default currency is rejected with
   CurrencyNotAllowed, the group unchanged, and every expense and every debt
   carries the default currency. *)

C14_SingleCurrency ==
    ~group.allowMultipleCurrencies =>
        /\ \A b \in ExpenseInputs :
              b.currency # group.defaultCurrency =>
                  LET r == addExpense(group, b.amount, b.currency, b.paidBy,
                                      b.splitBetween, now)
                  IN  r.err = "CurrencyNotAllowed" /\ r.g = group
        /\ \A k \in 1..Len(Ledger) : Ledger[k].currency = group.defaultCurrency
        /\ \A k \in 1..Len(Debts) : Debts[k].currency = group.defaultCurrency

\* a single-currency USD group with an expense and its debts refused an
\* expense
C14_Witness ==
    /\ ~group.allowMultipleCurrencies
    /\ group.defaultCurrency = "USD"
    /\ last.op = "addExpense" /\ last.result = "CurrencyNotAllowed"
    /\ Len(Ledger) >= 1
    /\ Len(Debts) >= 2

---------------------------------------------------------------------------
(* C15: removeMember(u) fails with NotAMember, the group unchanged, whenever
   u has no active membership: u has no membership record, or u's record is
   inactive. *)

C15_NotAMember ==
    \A u \in Users :
        ~IsActive(u) =>
            LET r == removeMember(group, u)
            IN  r.err = "NotAMember" /\ r.g = group

---------------------------------------------------------------------------
(* C16 as stated: joinByInviteCode changes the membership only if the code
   given equals the group's current invite code and the current time is
   strictly before the code's expiry. *)

JoinedBy(u, code) == joinByInviteCode(group, u, code, now).g.members # group.members

C16_Original ==
    \A u \in Users, code \in InviteInputs :
        JoinedBy(u, code) =>
            code = group.inviteCode /\ now < group.inviteCodeExpiresAt

(* C16: joinByInviteCode changes the membership only if the code given,
   converted to upper case, equals the group's current invite code and the
   current time is strictly before the code's expiry; with any other code,
   a replaced one included, or at or after the expiry it fails and the group
   is unchanged. *)

C16_InviteWindow ==
    \A u \in Users, code \in InviteInputs :
        LET r == joinByInviteCode(group, u, code, now)
            current == ToUpperCase(code) = group.inviteCode
                       /\ now < group.inviteCodeExpiresAt
        IN  /\ ~current => r.err = "InvalidInvite" /\ r.g = group
            /\ JoinedBy(u, code) => current

\* after the clock advanced a user joined with the current code, one hour
\* before its expiry
C16_Witness ==
    /\ last = Result("joinByInviteCode", "none")
    /\ now = group.inviteCodeExpiresAt - 1
    /\ now >= 1
    /\ \E k \in 2..Len(group.members) :
          group.members[k].isActive /\ group.members[k].joinedAt = now

---------------------------------------------------------------------------
(* C17: no partial writes.  Whenever addMember, removeMember, addExpense or
   settleDebt returns AlreadyMember, CapacityExceeded, NotAMember,
   OutstandingDebt, CurrencyNotAllowed, InvalidSplitParticipant,
   SplitMismatch, DebtNotFound or AlreadySettled, the stored group is what it
   was before the call. *)

Refusals ==
    {"AlreadyMember", "CapacityExceeded", "NotAMember", "OutstandingDebt",
     "CurrencyNotAllowed", "InvalidSplitParticipant", "SplitMismatch",
     "DebtNotFound", "AlreadySettled"}

Untouched(r) == r.err \in Refusals => r.g = group

C17_NoPartialWrites ==
    /\ \A u \in AllUsers :
          /\ Untouched(addMember(group, u, now))
          /\ Untouched(removeMember(group, u))
    /\ \A b \in LedgerInputs :
          Untouched(addExpense(group, b.amount, b.currency, b.paidBy, b.splitBetween, now))
    /\ \A d \in 1..(Len(Debts) + 1), u \in Users :
          Untouched(settleDebt(group, d, u, now))

\* a full group with expenses and a settled debt, in which each of the four
\* methods has a call that is refused, just refused one
C17_Witness ==
    /\ last.result \in Refusals
    /\ Len(Ledger) >= 1
    /\ addMember(group, "D", now).err = "CapacityExceeded"
    /\ \E u \in Users : removeMember(group, u).err = "OutstandingDebt"
    /\ \E b \in ExpenseInputs :
          addExpense(group, b.amount, b.currency, b.paidBy, b.splitBetween, now).err
              = "SplitMismatch"
    /\ \E d \in 1..Len(Debts) : settleDebt(group, d, "B", now).err = "AlreadySettled"

---------------------------------------------------------------------------
(* C18 as stated: in a group with active members A, B, C whose ledger holds
   A's expense of 300 split 100 each, after B adds an expense of 60 split 20
   each the simplifier's balances are A +180, B -80, C -80 and the debts are
   exactly B -> A 80 and C -> A 80. *)

ExpenseOfA == Request(300 * Unit, "IDR", "A", ThreeWay(100 * Unit, 100 * Unit, 100 * Unit))
ExpenseOfB == Request(60 * Unit, "IDR", "B", ThreeWay(20 * Unit, 20 * Unit, 20 * Unit))

C18_Setting ==
    /\ last.op = "addExpense" /\ last.result = "none"
    /\ \A u \in Users : IsActive(u)
    /\ Len(Ledger) = 2
    /\ SameExpense(Ledger[1], ExpenseOfA)
    /\ SameExpense(Ledger[2], ExpenseOfB)

\* the simplifier's balances of A, B, C are a, b, c currency units and the
\* debts are B -> A and C -> A of fromB and fromC cents, pending
ScenarioOutcome(a, b, c, fromB, fromC) ==
    LET t == LedgerBalances(NoBalances, group.members, Ledger).bal["IDR"]
    IN  /\ t.nan = {}
        /\ t.val["A"] = a * Unit /\ t.val["B"] = b * Unit /\ t.val["C"] = c * Unit
        /\ Len(Debts) = 2
        /\ TransferSet(Debts) =
              {[from |-> "B", to |-> "A", amount |-> fromB, currency |-> "IDR"],
               [from |-> "C", to |-> "A", amount |-> fromC, currency |-> "IDR"]}
        /\ \A k \in 1..Len(Debts) : Debts[k].status = "pending"

C18_Original == C18_Setting => ScenarioOutcome(180, -80, -80, 8000, 8000)

(* C18: in that setting the simplifier's balances are A +180, B -60, C -120
   and the debts are exactly B -> A 60 and C -> A 120, both pending. *)

C18_Scenario == C18_Setting => ScenarioOutcome(180, -60, -120, 6000, 12000)

\* the scenario, reached after the debts of A's expense were settled
C18_Witness == C18_Setting /\ last.discarded

---------------------------------------------------------------------------
(* C19 as stated: when the ledger is a single expense paid by an active member
   P and split among active members, P included, with autoSimplifyDebts on,
   the debts after addExpense are exactly one pending debt from each other
   participant whose split exceeds 0.01 to P, for that participant's split
   amount (in cents), in the expense's currency. *)

Participants(e) == {e.splitBetween[k].userId : k \in 1..Len(e.splitBetween)}

C19_Setting ==
    /\ last.op = "addExpense" /\ last.result = "none"
    /\ group.autoSimplifyDebts
    /\ Len(Ledger) = 1
    /\ IsActive(Ledger[1].paidBy)
    /\ \A u \in Participants(Ledger[1]) : IsActive(u)
    /\ Ledger[1].paidBy \in Participants(Ledger[1])

OneDebtPerShare ==
    LET e == Ledger[1]
        owing == {k \in 1..Len(e.splitBetween) :
                     /\ e.splitBetween[k].userId # e.paidBy
                     /\ 100 * e.splitBetween[k].amount > Unit}
    IN  /\ Len(Debts) = Cardinality(owing)
        /\ TransferSet(Debts) =
              {[from |-> e.splitBetween[k].userId, to |-> e.paidBy,
                amount |-> RoundCents(e.splitBetween[k].amount),
                currency |-> e.currency] : k \in owing}
        /\ \A k \in 1..Len(Debts) : Debts[k].status = "pending"

C19_Original == C19_Setting => OneDebtPerShare

(* C19: the same, for a single expense whose split amounts sum to no more
   than its amount. *)

C19_SingleExpense ==
    (C19_Setting /\ SplitSum(Ledger[1]) <= Ledger[1].amount) => OneDebtPerShare

\* A paid 300 split three ways and is owed 100 by B and by C
C19_Witness ==
    /\ C19_Setting
    /\ SplitSum(Ledger[1]) = Ledger[1].amount
    /\ TransferSet(Debts) =
          {[from |-> "B", to |-> "A", amount |-> 10000, currency |-> "IDR"],
           [from |-> "C", to |-> "A", amount |-> 10000, currency |-> "IDR"]}

---------------------------------------------------------------------------
(* C20: once a member that paid or took part in an expense has been removed,
   a recomputation gives that member the numeric balance (what it paid) minus
   (its splits) in each currency it took part in, and the balances of all
   who paid or took part, the removed member included, sum to 0 within
   0.01. *)

TookPart(u, c) ==
    \E k \in 1..Len(Ledger) :
        /\ Ledger[k].currency = c
        /\ u = Ledger[k].paidBy \/ u \in Participants(Ledger[k])

RECURSIVE SumTable(_, _)
SumTable(b, S) ==
    IF S = {} THEN 0
    ELSE LET u == CHOOSE x \in S : TRUE
         IN  (IF HasKey(b, u) THEN b.val[u] ELSE 0) + SumTable(b, S \ {u})

C20_RemovedMemberBalance ==
    LET d == LedgerBalances(NoBalances, group.members, Ledger)
    IN  \A u \in Users, c \in Currencies :
            (IsInactive(u) /\ TookPart(u, c)) =>
                /\ HasKey(d.bal[c], u)
                /\ u \notin d.bal[c].nan
                /\ d.bal[c].val[u] = NetBalance(Ledger, u, c)
                /\ WithinCent(Abs(SumTable(d.bal[c], {m \in AllUsers : TookPart(m, c)})))

---------------------------------------------------------------------------
(* C21: no orphaned debt.  After any sequence of joins, removals, expenses,
   settlements and recomputations run one at a time, no pending debt names
   as from or to a member whose membership is inactive. *)

C21_NoOrphanedDebt ==
    \A k \in 1..Len(Debts) :
        Debts[k].status = "pending" =>
            ~IsInactive(Debts[k].from) /\ ~IsInactive(Debts[k].to)

\* a member that took part in an expense has been removed and debts are
\* pending between the others
C21_Witness ==
    /\ \E u \in Users : IsInactive(u) /\ \E c \in Currencies : TookPart(u, c)
    /\ \E k \in 1..Len(Debts) : Debts[k].status = "pending"
    /\ FreshDebts

---------------------------------------------------------------------------
(* C22: currency segregation.  The debts the simplifier emits for a currency
   are those it emits for the ledger restricted to that currency, with the
   same members; a successful addExpense in another currency leaves the
   simplifier's (from, to, amount) debts of the currency as they were; and a
   freshly computed debt is in a currency in which both its parties paid or
   took part. *)

OnlyCurrency(g, c) ==
    [g EXCEPT !.billSplit = SelectSeq(@, LAMBDA e : e.currency = c)]

TransfersIn(ds, c) == {Transfer(ds[k]) : k \in {j \in 1..Len(ds) : ds[j].currency = c}}

C22_CurrencySegregation ==
    /\ \A c \in Currencies :
          TransfersIn(calculateDebts(group).simplifyDebt, c)
              = TransferSet(calculateDebts(OnlyCurrency(group, c)).simplifyDebt)
    /\ \A b \in ExpenseInputs :
          LET r == addExpense(group, b.amount, b.currency, b.paidBy, b.splitBetween, now)
          IN  (r.err = "none" /\ group.autoSimplifyDebts) =>
                  \A c \in Currencies \ {b.currency} :
                      TransfersIn(r.g.simplifyDebt, c)
                          = TransfersIn(calculateDebts(group).simplifyDebt, c)
    /\ FreshDebts =>
          \A k \in 1..Len(Debts) :
              /\ TookPart(Debts[k].from, Debts[k].currency)
              /\ TookPart(Debts[k].to, Debts[k].currency)

\* an expense in one currency was added to a ledger in the other, and there
\* are debts in both
C22_Witness ==
    /\ last.op = "addExpense" /\ last.result = "none"
    /\ LedgerCurrencies = Currencies
    /\ \A c \in Currencies : DebtsIn(c) # {}

---------------------------------------------------------------------------
(* C23: the payer is an active member.  addExpense with a payer that is not
   an active member of the group is refused and records nothing. *)
C23_PayerIsActive ==
    \A b \in ExpenseInputs :
        LET r == addExpense(group, b.amount, b.currency, b.paidBy, b.splitBetween, now)
        IN  ~IsActive(b.paidBy) => r.err # "none" /\ r.g = group

---------------------------------------------------------------------------
(* C24: positive amounts.  Every expense of the ledger has an amount greater
   than zero; addExpense with an amount of zero or less is refused and
   nothing is stored. *)
C24_PositiveAmounts ==
    /\ \A k \in 1..Len(Ledger) : Ledger[k].amount > 0
    /\ \A b \in LedgerInputs :
          LET r == addExpense(group, b.amount, b.currency, b.paidBy, b.splitBetween, now)
          IN  b.amount <= 0 => r.err # "none" /\ r.g = group

---------------------------------------------------------------------------
(* C25: capacity.  In every state reached by creating the group, adding
   members (rejoining included) and removing members, the number of active
   members is at most maxMembers; and addMember on a group whose active
   members already number maxMembers or more leaves that number unchanged. *)
C25_Capacity ==
    /\ memberCount(group) <= group.maxMembers
    /\ \A u \in Users :
          memberCount(group) >= group.maxMembers =>
              memberCount(addMember(group, u, now).g) = memberCount(group)

---------------------------------------------------------------------------
(* C26: well-formed debts.  Every debt a recomputation emits has a rounded
   amount above zero, is pending and has different from and to; within one
   currency no member is the from of one debt and the to of another; and a
   member whose balance in a currency is within 0.01 of zero is named by no
   debt in that currency. *)

NamedIn(m, c) ==
    \E k \in DebtsIn(c) : Debts[k].from = m \/ Debts[k].to = m

C26_WellFormedDebts ==
    FreshDebts =>
        /\ \A k \in 1..Len(Debts) :
              /\ Debts[k].amount > 0
              /\ Debts[k].status = "pending"
              /\ Debts[k].from # Debts[k].to
              /\ \A k2 \in DebtsIn(Debts[k].currency) : Debts[k].from # Debts[k2].to
        /\ \A m \in AllUsers, c \in Currencies :
              WithinCent(Abs(NetBalance(Ledger, m, c))) => ~NamedIn(m, c)

\* debts were emitted while some member has a balance that is not zero but
\* within 0.01 of it
C26_Witness ==
    /\ FreshDebts
    /\ Len(Debts) >= 2
    /\ \E m \in AllUsers, c \in Currencies :
          /\ NetBalance(Ledger, m, c) # 0
          /\ WithinCent(Abs(NetBalance(Ledger, m, c)))
          /\ DebtsIn(c) # {}

---------------------------------------------------------------------------
(* C27: the sweep terminates.  For the creditors and debtors of every
   currency of the ledger, each iteration of the sweep advances at least one
   of the two pointers, the sweep makes at most (creditors + debtors - 1)
   iterations, and it ends with one of the two lists exhausted. *)

CreditorsIn(c) ==
    LET d == LedgerBalances(NoBalances, group.members, Ledger)
    IN  SortDescBy(Creditors(d.bal[c], d.bal[c].keys), "amount")

DebtorsIn(c) ==
    LET d == LedgerBalances(NoBalances, group.members, Ledger)
    IN  SortDescBy(Debtors(d.bal[c], d.bal[c].keys), "amount")

\* the iterations of the sweep of currency c, cut off after one more than
\* the claimed maximum
StepsIn(c) ==
    LET cs == CreditorsIn(c)
        ds == DebtorsIn(c)
    IN  IF cs = <<>> \/ ds = <<>> THEN <<>>
        ELSE SweepSteps(cs, ds, 1, 1, cs[1].amount, ds[1].amount,
                        Len(cs) + Len(ds))

C27_SweepTerminates ==
    \A c \in LedgerCurrencies :
        LET cs == CreditorsIn(c)
            ds == DebtorsIn(c)
            steps == StepsIn(c)
        IN  /\ \A k \in 1..Len(steps) :
                  steps[k].i2 > steps[k].i \/ steps[k].j2 > steps[k].j
            /\ (cs # <<>> /\ ds # <<>>) =>
                  /\ Len(steps) >= 1
                  /\ Len(steps) <= Len(cs) + Len(ds) - 1
                  /\ \/ steps[Len(steps)].i2 > Len(cs)
                     \/ steps[Len(steps)].j2 > Len(ds)

\* two creditors and two or more debtors, swept in the maximal number of
\* iterations, one of which advanced one pointer only
C27_Witness ==
    \E c \in LedgerCurrencies :
        LET steps == StepsIn(c)
        IN  /\ Len(CreditorsIn(c)) >= 2 /\ Len(DebtorsIn(c)) >= 2
            /\ Len(steps) = Len(CreditorsIn(c)) + Len(DebtorsIn(c)) - 1
            /\ \E k \in 1..Len(steps) :
                  steps[k].i2 = steps[k].i /\ steps[k].j2 > steps[k].j

---------------------------------------------------------------------------
(* C28: concurrent joins.  For two join requests served concurrently on one
   group, in every interleaving the stored group holds at most one
   membership record per user and at most maxMembers active members. *)

RecordsOf(u) == {k \in 1..Len(group.members) : group.members[k].userId = u}

C28_ConcurrentJoins ==
    /\ \A u \in AllUsers : Cardinality(RecordsOf(u)) <= 1
    /\ memberCount(group) <= group.maxMembers

---------------------------------------------------------------------------
(* C29: settling does not alter ledger balances.  When every debt of a
   freshly computed Debt list is settled and the debts are then recomputed,
   with the expenses and the membership as they were, the recomputation
   emits the same (from, to, amount, currency) debts as before the
   settlements, all pending. *)

AllSettled(ds) == \A k \in 1..Len(ds) : ds[k].status = "settled"

AllPending(ds) == \A k \in 1..Len(ds) : ds[k].status = "pending"

\* settleDebt on the debts k..Len, one after the other
RECURSIVE SettleFrom(_, _)
SettleFrom(g, k) ==
    IF k > Len(g.simplifyDebt) THEN g
    ELSE SettleFrom(settleDebt(g, g.simplifyDebt[k].id, "B", now).g, k + 1)

Recompute(g) == Save(g, calculateDebts(g)).g.simplifyDebt

C29_SettledThenRecomputed ==
    /\ FreshDebts =>
          LET g1 == SettleFrom(group, 1)
          IN  /\ AllSettled(g1.simplifyDebt)
              /\ SameTransfers(Recompute(g1), Debts)
              /\ AllPending(Recompute(g1))
    /\ (group.autoSimplifyDebts /\ AllSettled(Debts)) =>
          /\ SameTransfers(Recompute(group), Debts)
          /\ AllPending(Recompute(group))

\* the last of two or more debts has just been settled
C29_Witness ==
    /\ group.autoSimplifyDebts
    /\ last.op = "settleDebt" /\ last.result = "none"
    /\ Len(Debts) >= 2
    /\ AllSettled(Debts)

---------------------------------------------------------------------------
(* C30: the simplifier runs on addExpense only when autoSimplifyDebts is on.
   With autoSimplifyDebts off, a successful addExpense adds the expense to
   the ledger and leaves the Debt list as it was, records, statuses and
   settlement data; with it on, the stored Debt list after a successful
   addExpense is the simplifier's output over the ledger with the new
   expense. *)

C30_SimplifierOnAdd ==
    /\ \A b \in ExpenseInputs :
          LET r == addExpense(group, b.amount, b.currency, b.paidBy, b.splitBetween, now)
          IN  r.err = "none" =>
                  /\ Len(r.g.billSplit) = Len(Ledger) + 1
                  /\ \E k \in 1..Len(r.g.billSplit) : SameExpense(r.g.billSplit[k], b)
                  /\ ~group.autoSimplifyDebts => r.g.simplifyDebt = Debts
                  /\ group.autoSimplifyDebts =>
                        r.g.simplifyDebt = calculateDebts(r.g).simplifyDebt
    /\ (last.op = "addExpense" /\ last.result = "none" /\ group.autoSimplifyDebts) =>
          Debts = calculateDebts(group).simplifyDebt

\* an expense was added to a group with autoSimplifyDebts off that holds a
\* settled debt and a pending one
C30_Witness ==
    /\ ~group.autoSimplifyDebts
    /\ last.op = "addExpense" /\ last.result = "none"
    /\ Len(Ledger) = 2
    /\ \E k \in 1..Len(Debts) : Debts[k].status = "settled"
    /\ \E k \in 1..Len(Debts) : Debts[k].status = "pending"
    /\ ~SameTransfers(Debts, calculateDebts(group).simplifyDebt)

====
